---- MODULE Spec2Model ----
(***************************************************************************)
(* Model of packages/grafana-data/src/datetime/parser.ts: dateTimeParse,   *)
(* parseString and parseOthers, with the collaborators they call           *)
(* (isDateTime, datemath isValid/parse, getTimeZone, moment, moment.utc,   *)
(* moment.tz, moment.tz.zone and lodash lowerCase).                        *)
(*                                                                         *)
(* Strings are sequences of one-character strings, so that indexOf,        *)
(* lowerCase and the zone-name normalisation are computed character by     *)
(* character.                                                              *)
(***************************************************************************)
EXTENDS Integers, Sequences, FiniteSets, TLC

\* ------------------------------------------------------------------ bounds

\* The wall clock runs from 0 to MaxClock.
MaxClock == 1

\* ------------------------------------------------------------- characters

\* The ASCII capitals, each with its lower-case letter.
ToLower ==
  [A |-> "a", B |-> "b", C |-> "c", D |-> "d", E |-> "e", F |-> "f", G |-> "g",
   H |-> "h", I |-> "i", J |-> "j", K |-> "k", L |-> "l", M |-> "m", N |-> "n",
   O |-> "o", P |-> "p", Q |-> "q", R |-> "r", S |-> "s", T |-> "t", U |-> "u",
   V |-> "v", W |-> "w", X |-> "x", Y |-> "y", Z |-> "z"]

UpperSet == DOMAIN ToLower
LowerSet == {ToLower[c] : c \in UpperSet}

isLower(c) == c \in LowerSet
isUpper(c) == c \in UpperSet

\* String.prototype.toLowerCase on one character.
toLowerChar(c) == IF isUpper(c) THEN ToLower[c] ELSE c

\* String.prototype.toLowerCase.
toLowerCase(s) == [i \in 1..Len(s) |-> toLowerChar(s[i])]

\* The JavaScript value undefined where a string may stand: no string of the
\* model equals it, since "undefined" is not a single character.
undefined == <<"undefined">>

\* ----------------------------------------------------------------- values

\* A missing MomentInput / a missing roundUp.
UndefinedValue == [kind |-> "undefined"]
\* parse's "no result".
Null == [kind |-> "null"]

StringValue(s) == [kind |-> "string", str |-> s]
NumberValue(n) == [kind |-> "number", num |-> n]

\* A DateTime (moment) object, recorded by how it was constructed:
\*   ctor "moment"         moment() when date is undefined (the clock, at), else moment(date): local interpretation
\*   ctor "moment.utc"     moment.utc(date)
\*   ctor "moment.tz"      moment.tz(date, zone)
\*   ctor "datemath.parse" the relative-expression engine's result
DateTime(ctor, date, zone, roundUp, at) ==
  [kind |-> "DateTime", ctor |-> ctor, date |-> date, zone |-> zone,
   roundUp |-> roundUp, at |-> at]

\* moment(): the current wall-clock instant.
MomentNow(clock) == DateTime("moment", UndefinedValue, undefined, "undefined", clock)
\* moment(date): date interpreted in the ambient local zone.
Moment(date) == DateTime("moment", date, undefined, "undefined", 0)
\* moment.utc(date): date interpreted as UTC.
MomentUtc(date) == DateTime("moment.utc", date, undefined, "undefined", 0)
\* moment.tz(date, name): date interpreted as wall-clock time in the zone name.
MomentTz(date, name) == DateTime("moment.tz", date, name, "undefined", 0)

\* isDateTime of moment_wrapper: the instant type predicate.
isDateTime(value) == value.kind = "DateTime"

\* ---------------------------------------------------------------- strings

\* indexOf as a bug would have it: the search ignores case.
indexOf_IgnoreCase(s, search) ==
  LET hits == {i \in 1..(Len(s) - Len(search) + 1) :
                 toLowerCase(SubSeq(s, i, i + Len(search) - 1)) = toLowerCase(search)}
  IN IF hits = {} THEN -1
     ELSE (CHOOSE i \in hits : \A j \in hits : i <= j) - 1

\* indexOf as a bug would have it: only a match at the start is found.
indexOf_StartOnly(s, search) ==
  IF Len(s) >= Len(search) /\ SubSeq(s, 1, Len(search)) = search THEN 0 ELSE -1

\* String.prototype.indexOf: the first (0-based) position at which search
\* occurs in s, and -1 when it occurs nowhere.
indexOf(s, search) ==
  LET hits == {i \in 1..(Len(s) - Len(search) + 1) :
                 SubSeq(s, i, i + Len(search) - 1) = search}
  IN IF hits = {} THEN -1
     ELSE (CHOOSE i \in hits : \A j \in hits : i <= j) - 1

\* The last position of the run of lower-case letters that continues after i.
RECURSIVE lowerRunEnd(_, _)
lowerRunEnd(s, i) ==
  IF i < Len(s) /\ isLower(s[i + 1]) THEN lowerRunEnd(s, i + 1) ELSE i

\* The last position of the run of capitals that continues after i.
RECURSIVE upperRunEnd(_, _)
upperRunEnd(s, i) ==
  IF i < Len(s) /\ isUpper(s[i + 1]) THEN upperRunEnd(s, i + 1) ELSE i

\* lodash words() on a string of ASCII letters and separators (the names of
\* this model hold no digit): the maximal runs of letters, split where the
\* word pattern splits them:
\*   [A-Z]?[a-z]+     an optional capital and the lower-case run after it
\*   [A-Z]+           a run of capitals, without its last capital when a
\*                    lower-case letter follows (that capital starts a word)
\* Every other character is a break and belongs to no word.
RECURSIVE words(_, _)
words(s, i) ==
  IF i > Len(s) THEN <<>>
  ELSE IF isLower(s[i])
    THEN LET j == lowerRunEnd(s, i)
         IN <<SubSeq(s, i, j)>> \o words(s, j + 1)
  ELSE IF isUpper(s[i])
    THEN IF i < Len(s) /\ isLower(s[i + 1])
           THEN LET j == lowerRunEnd(s, i + 1)
                IN <<SubSeq(s, i, j)>> \o words(s, j + 1)
           ELSE LET k == upperRunEnd(s, i)
                IN IF k < Len(s) /\ isLower(s[k + 1])
                     THEN <<SubSeq(s, i, k - 1)>> \o words(s, k)
                     ELSE <<SubSeq(s, i, k)>> \o words(s, k + 1)
  ELSE words(s, i + 1)

\* The compounder of lodash lowerCase: the words in lower case, joined by
\* single spaces.
RECURSIVE joinLower(_)
joinLower(ws) ==
  IF ws = <<>> THEN <<>>
  ELSE IF Len(ws) = 1 THEN toLowerCase(ws[1])
  ELSE toLowerCase(ws[1]) \o <<" ">> \o joinLower(Tail(ws))

\* lodash lowerCase(string): "fooBar" -> "foo bar", "--Foo-Bar--" -> "foo bar".
lowerCase(s) == joinLower(words(s, 1))

\* moment-timezone normalizeName: lower case, with every "/" replaced by "_".
normalizeName(name) ==
  [i \in 1..Len(name) |->
     IF name[i] = "/" THEN "_" ELSE toLowerChar(name[i])]

\* moment.tz.zone(name): the zone of the database whose normalised name is
\* the normalised name asked for, and null when there is none. A database
\* is a set of zones [name |-> canonical name], keyed by normalizeName(name).
MomentTzZone(name, db) ==
  LET key == normalizeName(name)
      found == {z \in db : normalizeName(z.name) = key}
  IN IF found = {} THEN Null ELSE CHOOSE z \in found : TRUE

\* ------------------------------------------------------------ collaborators

\* options?.timeZone and options?.roundUp: undefined when options is absent.
NoOptions == [absent |-> TRUE]
optTimeZone(options) == IF options = NoOptions THEN undefined ELSE options.timeZone
optRoundUp(options) == IF options = NoOptions THEN "undefined" ELSE options.roundUp

\* getTimeZone of ./common: options.timeZone when present, the process-wide
\* default zone otherwise.
getTimeZone(options, env) ==
  IF optTimeZone(options) # undefined THEN optTimeZone(options)
  ELSE env.defaultTimeZone

\* isValid of ./datemath: total; the engine decides (engine.valid).
isValid(text, engine) == engine.valid

\* parse of ./datemath: the engine's instant for (text, roundUp, timeZone),
\* anchored to the clock, or null (engine.evaluates is false).
parse(text, roundUp, timeZone, env, engine) ==
  IF engine.evaluates
    THEN DateTime("datemath.parse", StringValue(text), timeZone, roundUp, env.clock)
    ELSE Null

\* The literal 'now' and the literal 'utc'.
NowLiteral == <<"n","o","w">>
UtcLiteral == <<"u","t","c">>

\* ------------------------------------------------------------------ parser
\* Each function returns [result, calls]: the value returned and the
\* collaborator calls made, in order.

\* parseOthers as a bug would have it: the literal 'utc' is matched before
\* the database is asked.
parseOthers_LiteralFirst(value, options, env, engine) ==
  LET timeZone == getTimeZone(options, env)
      zone == MomentTzZone(timeZone, env.zones)
      calls == << [fn |-> "getTimeZone", ret |-> timeZone],
                  [fn |-> "moment.tz.zone", name |-> timeZone, ret |-> zone] >>
  IN IF lowerCase(timeZone) = UtcLiteral
       THEN [result |-> MomentUtc(value), calls |-> calls]
     ELSE IF zone # Null /\ zone.name # <<>>
       THEN [result |-> MomentTz(value, zone.name), calls |-> calls]
     ELSE [result |-> Moment(value), calls |-> calls]

parseOthers(value, options, env, engine) ==
  LET timeZone == getTimeZone(options, env)
      zone == MomentTzZone(timeZone, env.zones)
      calls == << [fn |-> "getTimeZone", ret |-> timeZone],
                  [fn |-> "moment.tz.zone", name |-> timeZone, ret |-> zone] >>
  IN IF zone # Null /\ zone.name # <<>>
       THEN [result |-> MomentTz(value, zone.name), calls |-> calls]
     ELSE IF lowerCase(timeZone) = UtcLiteral
       THEN [result |-> MomentUtc(value), calls |-> calls]
     ELSE [result |-> Moment(value), calls |-> calls]

\* parseString as bugs would have it: each differs from parseString in the
\* one place its comment names.

\* The null result of parse is returned as it is (no '|| moment()').
parseString_NoFallback(value, options, env, engine) ==
  IF indexOf(value.str, NowLiteral) # -1
    THEN LET valid == isValid(value.str, engine)
             validCall == [fn |-> "isValid", text |-> value.str, ret |-> valid]
         IN IF ~valid
              THEN [result |-> MomentNow(env.clock), calls |-> <<validCall>>]
              ELSE LET parsed == parse(value.str, optRoundUp(options),
                                       optTimeZone(options), env, engine)
                       parseCall == [fn |-> "parse", text |-> value.str,
                                     roundUp |-> optRoundUp(options),
                                     timeZone |-> optTimeZone(options),
                                     ret |-> parsed]
                   IN [result |-> parsed, calls |-> <<validCall, parseCall>>]
    ELSE parseOthers(value, options, env, engine)

\* An invalid expression is handed to parseOthers, as a date string.
parseString_InvalidToOthers(value, options, env, engine) ==
  IF indexOf(value.str, NowLiteral) # -1
    THEN LET valid == isValid(value.str, engine)
             validCall == [fn |-> "isValid", text |-> value.str, ret |-> valid]
         IN IF ~valid
              THEN LET others == parseOthers(value, options, env, engine)
                   IN [result |-> others.result,
                       calls |-> <<validCall>> \o others.calls]
              ELSE LET parsed == parse(value.str, optRoundUp(options),
                                       optTimeZone(options), env, engine)
                       parseCall == [fn |-> "parse", text |-> value.str,
                                     roundUp |-> optRoundUp(options),
                                     timeZone |-> optTimeZone(options),
                                     ret |-> parsed]
                   IN [result |-> IF parsed # Null THEN parsed
                                  ELSE MomentNow(env.clock),
                       calls |-> <<validCall, parseCall>>]
    ELSE parseOthers(value, options, env, engine)

\* parse is given the effective zone of getTimeZone, not options?.timeZone.
parseString_EffectiveZone(value, options, env, engine) ==
  IF indexOf(value.str, NowLiteral) # -1
    THEN LET valid == isValid(value.str, engine)
             validCall == [fn |-> "isValid", text |-> value.str, ret |-> valid]
         IN IF ~valid
              THEN [result |-> MomentNow(env.clock), calls |-> <<validCall>>]
              ELSE LET parsed == parse(value.str, optRoundUp(options),
                                       getTimeZone(options, env), env, engine)
                       parseCall == [fn |-> "parse", text |-> value.str,
                                     roundUp |-> optRoundUp(options),
                                     timeZone |-> getTimeZone(options, env),
                                     ret |-> parsed]
                   IN [result |-> IF parsed # Null THEN parsed
                                  ELSE MomentNow(env.clock),
                       calls |-> <<validCall, parseCall>>]
    ELSE parseOthers(value, options, env, engine)

\* The validity test is inverted: a valid expression gives moment(), an
\* invalid one is evaluated.
parseString_InvertedValidity(value, options, env, engine) ==
  IF indexOf(value.str, NowLiteral) # -1
    THEN LET valid == isValid(value.str, engine)
             validCall == [fn |-> "isValid", text |-> value.str, ret |-> valid]
         IN IF valid
              THEN [result |-> MomentNow(env.clock), calls |-> <<validCall>>]
              ELSE LET parsed == parse(value.str, optRoundUp(options),
                                       optTimeZone(options), env, engine)
                       parseCall == [fn |-> "parse", text |-> value.str,
                                     roundUp |-> optRoundUp(options),
                                     timeZone |-> optTimeZone(options),
                                     ret |-> parsed]
                   IN [result |-> IF parsed # Null THEN parsed
                                  ELSE MomentNow(env.clock),
                       calls |-> <<validCall, parseCall>>]
    ELSE parseOthers(value, options, env, engine)

parseString(value, options, env, engine) ==
  IF indexOf(value.str, NowLiteral) # -1
    THEN LET valid == isValid(value.str, engine)
             validCall == [fn |-> "isValid", text |-> value.str, ret |-> valid]
         IN IF ~valid
              THEN [result |-> MomentNow(env.clock), calls |-> <<validCall>>]
              ELSE LET parsed == parse(value.str, optRoundUp(options),
                                       optTimeZone(options), env, engine)
                       parseCall == [fn |-> "parse", text |-> value.str,
                                     roundUp |-> optRoundUp(options),
                                     timeZone |-> optTimeZone(options),
                                     ret |-> parsed]
                   IN [result |-> IF parsed # Null THEN parsed
                                  ELSE MomentNow(env.clock),
                       calls |-> <<validCall, parseCall>>]
    ELSE parseOthers(value, options, env, engine)

\* dateTimeParse as a bug would have it: no isDateTime test, a DateTime is
\* parsed again.
dateTimeParse_NoPassthrough(value, options, env, engine) ==
  IF value.kind = "string" THEN parseString(value, options, env, engine)
  ELSE parseOthers(value, options, env, engine)

dateTimeParse(value, options, env, engine) ==
  IF isDateTime(value) THEN [result |-> value, calls |-> <<>>]
  ELSE IF value.kind = "string" THEN parseString(value, options, env, engine)
  ELSE parseOthers(value, options, env, engine)

\* ------------------------------------------------------------------ inputs

TzUtcLower == <<"u","t","c">>
TzUtcUpper == <<"U","T","C">>
TzUtcMixed == <<"u","T","c">>
TzUtcSpace == <<"u","t","c"," ">>
TzNotAZone == <<"N","o","t","/","A","Z","o","n","e">>
TzOslo == <<"E","u","r","o","p","e","/","O","s","l","o">>
TzOsloLower == <<"e","u","r","o","p","e","/","o","s","l","o">>
TzBrowser == <<"b","r","o","w","s","e","r">>
TzEmpty == <<>>

\* The timeZone options a caller passes.
TimeZones ==
  {TzUtcLower, TzUtcUpper, TzUtcMixed, TzUtcSpace, TzNotAZone, TzOsloLower,
   TzEmpty}

\* The roundUp options a caller passes: none, or true.
RoundUps == {"undefined", "true"}

Options ==
  {NoOptions} \cup [timeZone : TimeZones \cup {undefined}, roundUp : RoundUps]

\* An already-parsed instant, a number, and the strings: 'now-1h',
\* 'xnow' ('now' not at the start), 'NOW' and the date string '2020'.
ExistingDateTime == MomentUtc(NumberValue(7))
Values ==
  {ExistingDateTime, NumberValue(0),
   StringValue(<<"n","o","w","-","1","h">>),
   StringValue(<<"x","n","o","w">>),
   StringValue(<<"N","O","W">>),
   StringValue(<<"2","0","2","0">>)}

\* What the engine may answer when asked: isValid's answer, and whether
\* parse yields an instant.
Engines == [valid : BOOLEAN, evaluates : BOOLEAN]

\* The timezone databases: one without UTC, and one with UTC and with a
\* zone that has no name.
Databases ==
  {{[name |-> TzOslo]},
   {[name |-> TzUtcUpper], [name |-> TzOslo], [name |-> TzEmpty]}}

\* The process-wide default zones: 'browser' and 'utc'.
DefaultTimeZones == {TzBrowser, TzUtcLower}

\* ------------------------------------------------------------------- state

VARIABLES
  clock,            \* the wall clock moment() reads
  defaultTimeZone,  \* the process-wide default zone, set when the process starts
  zones,            \* the moment-timezone database, loaded when the process starts
  last,             \* the last dateTimeParse call: inputs, clock, result, calls
  roundUpPair       \* how the last call compares with the call before it, when
                    \* the two differ in options.roundUp alone

vars == <<clock, defaultTimeZone, zones, last, roundUpPair>>

NoCall == [called |-> FALSE]

\* 'now' occurs in s (stated without indexOf).
ContainsNow(s) ==
  \E i \in 1..Len(s) :
    i + 2 <= Len(s) /\ s[i] = "n" /\ s[i + 1] = "o" /\ s[i + 2] = "w"

\* The call's input is no relative expression: an instant, a non-string
\* scalar, a string without 'now', or one that failed validation.
NotRelative(call) ==
  \/ call.value.kind # "string"
  \/ ~ContainsNow(call.value.str)
  \/ \E i \in 1..Len(call.calls) :
       call.calls[i].fn = "isValid" /\ ~call.calls[i].ret

\* Two calls with the same value, timeZone and clock (the default zone does
\* not change) and a different roundUp, on an input that is no relative
\* expression.
RoundUpOnly(a, b) ==
  /\ a # NoCall /\ b # NoCall
  /\ a.value = b.value
  /\ optTimeZone(a.options) = optTimeZone(b.options)
  /\ optRoundUp(a.options) # optRoundUp(b.options)
  /\ a.clock = b.clock
  /\ NotRelative(a) /\ NotRelative(b)

Init ==
  /\ clock = 0
  /\ defaultTimeZone \in DefaultTimeZones
  /\ zones \in Databases
  /\ last = NoCall
  /\ roundUpPair = "none"

\* One call of dateTimeParse(value, options).
DateTimeParse ==
  \E value \in Values, options \in Options, engine \in Engines :
    LET env == [clock |-> clock, defaultTimeZone |-> defaultTimeZone, zones |-> zones]
        r == dateTimeParse(value, options, env, engine)
        call == [called |-> TRUE, value |-> value, options |-> options,
                 clock |-> clock,
                 result |-> r.result, calls |-> r.calls]
    IN /\ last' = call
       /\ roundUpPair' = IF RoundUpOnly(last, call)
                           THEN IF call.result = last.result THEN "equal" ELSE "unequal"
                           ELSE "none"
       /\ UNCHANGED <<clock, defaultTimeZone, zones>>

\* The wall clock advances.
Tick ==
  /\ clock < MaxClock
  /\ clock' = clock + 1
  /\ UNCHANGED <<defaultTimeZone, zones, last, roundUpPair>>

Next == DateTimeParse \/ Tick

Spec == Init /\ [][Next]_vars

\* ------------------------------------------------------------------ claims

Called == last # NoCall

\* The last call made the collaborator call fn.
HasCall(fn) == \E i \in 1..Len(last.calls) : last.calls[i].fn = fn

\* The input of the last call is a string that contains / does not contain 'now'.
NowString == last.value.kind = "string" /\ ContainsNow(last.value.str)
PlainString == last.value.kind = "string" /\ ~ContainsNow(last.value.str)

\* The environment the last call ran in.
EnvAtCall ==
  [clock |-> last.clock, defaultTimeZone |-> defaultTimeZone, zones |-> zones]

\* C1: an input that is already a DateTime is returned unchanged, whatever
\* the options, and no collaborator (engine, timezone database, default
\* zone) is consulted.
C1_Passthrough ==
  (Called /\ isDateTime(last.value)) =>
    (last.result = last.value /\ last.calls = <<>>)

C1_Witness ==
  /\ Called
  /\ last.value = ExistingDateTime
  /\ last.options = [timeZone |-> TzUtcLower, roundUp |-> "true"]
  /\ last.result = ExistingDateTime

\* The four resolution paths, by the calls made.
PathPassthrough == last.calls = <<>>
PathInvalid ==
  Len(last.calls) = 1 /\ last.calls[1].fn = "isValid" /\ ~last.calls[1].ret
PathRelative ==
  /\ Len(last.calls) = 2
  /\ last.calls[1].fn = "isValid" /\ last.calls[1].ret
  /\ last.calls[2].fn = "parse"
PathGeneric ==
  /\ Len(last.calls) = 2
  /\ last.calls[1].fn = "getTimeZone"
  /\ last.calls[2].fn = "moment.tz.zone"

\* C2: every call, whatever the input shape and the options, ends in exactly
\* one resolution path and returns a DateTime (never null, never an error).
C2_Total ==
  Called =>
    /\ isDateTime(last.result)
    /\ Cardinality({p \in {"passthrough", "invalid", "relative", "generic"} :
         \/ p = "passthrough" /\ PathPassthrough
         \/ p = "invalid" /\ PathInvalid
         \/ p = "relative" /\ PathRelative
         \/ p = "generic" /\ PathGeneric}) = 1

C2_Witness ==
  /\ Called
  /\ PathRelative
  /\ last.calls[2].ret = Null
  /\ isDateTime(last.result)

\* C3: a string containing 'now' that the validity check rejects resolves to
\* the current wall-clock instant; parse and the generic resolver are not
\* invoked.
C3_InvalidIsNow ==
  (Called /\ NowString /\ HasCall("isValid") /\ ~last.calls[1].ret) =>
    /\ last.result = MomentNow(last.clock)
    /\ ~HasCall("parse")
    /\ ~HasCall("getTimeZone") /\ ~HasCall("moment.tz.zone")

C3_Witness ==
  /\ Called
  /\ last.value = StringValue(<<"x","n","o","w">>)
  /\ last.calls[1].fn = "isValid" /\ ~last.calls[1].ret
  /\ last.clock = 1
  /\ last.result = MomentNow(1)

\* C4: a string containing 'now' that passes the validity check is evaluated
\* by parse with exactly the caller's roundUp and timeZone; the result is
\* parse's instant, and the current wall-clock instant when parse returns null.
C4_ValidIsEvaluated ==
  (Called /\ NowString /\ HasCall("isValid") /\ last.calls[1].ret) =>
    /\ Len(last.calls) = 2
    /\ last.calls[2].fn = "parse"
    /\ last.calls[2].text = last.value.str
    /\ last.calls[2].roundUp = optRoundUp(last.options)
    /\ last.calls[2].timeZone = optTimeZone(last.options)
    /\ last.result = IF last.calls[2].ret # Null THEN last.calls[2].ret
                     ELSE MomentNow(last.clock)

C4_Witness ==
  /\ Called /\ NowString
  /\ last.options = [timeZone |-> undefined, roundUp |-> "true"]
  /\ PathRelative
  /\ last.calls[2].ret = Null
  /\ last.clock = 1
  /\ last.result = MomentNow(1)

\* C5: a string without 'now' resolves to what parseOthers yields for that
\* string and the same options.
C5_PlainStringIsGeneric ==
  (Called /\ PlainString) =>
    \A engine \in Engines :
      last.result = parseOthers(last.value, last.options, EnvAtCall, engine).result

C5_Witness ==
  /\ Called
  /\ last.value = StringValue(<<"N","O","W">>)
  /\ last.options = [timeZone |-> TzOsloLower, roundUp |-> "true"]
  /\ last.result = MomentTz(last.value, TzOslo)

\* The last call went to the generic resolver.
GenericInput == ~isDateTime(last.value) /\ (last.value.kind = "string" => PlainString)

\* C6: in the generic resolver the effective zone is options.timeZone when
\* present and the default zone otherwise; when the database has a zone with
\* a non-empty name for it, the result is moment.tz(value, that name).
C6_ZoneQualified ==
  (Called /\ GenericInput) =>
    LET effective == IF optTimeZone(last.options) # undefined
                       THEN optTimeZone(last.options)
                       ELSE defaultTimeZone
        zone == MomentTzZone(effective, zones)
    IN /\ PathGeneric
       /\ last.calls[1].ret = effective
       /\ last.calls[2].name = effective
       /\ (zone # Null /\ zone.name # <<>>) =>
            last.result = MomentTz(last.value, zone.name)

C6_Witness ==
  /\ Called /\ GenericInput
  /\ optTimeZone(last.options) = undefined
  /\ defaultTimeZone = TzUtcLower
  /\ last.result = MomentTz(last.value, TzUtcUpper)

\* The instant r is value interpreted as UTC: built by moment.utc, or by
\* moment.tz in the zone UTC.
InterpretedAsUtc(r, value) ==
  /\ r.date = value
  /\ \/ r.ctor = "moment.utc"
     \/ r.ctor = "moment.tz" /\ r.zone = TzUtcUpper

\* The instant r is value in the ambient local interpretation.
InterpretedAsLocal(r, value) == r = Moment(value)

\* C7: a date string without 'now' and a timeZone option that is 'utc' in
\* lower, upper or mixed case is interpreted as UTC.
C7_UtcAnyCase ==
  (Called /\ PlainString /\ toLowerCase(optTimeZone(last.options)) = UtcLiteral) =>
    InterpretedAsUtc(last.result, last.value)

\* C8: in the generic resolver, an effective zone that the database does not
\* hold and that is not 'utc' after case normalisation gives the ambient
\* local interpretation.
C8_UnknownIsLocal ==
  (Called /\ GenericInput) =>
    LET effective == last.calls[1].ret
    IN (MomentTzZone(effective, zones) = Null /\ toLowerCase(effective) # UtcLiteral) =>
         InterpretedAsLocal(last.result, last.value)

\* C9: two calls that differ in options.roundUp alone, on an input that is
\* no relative expression, return the same instant.
C9_RoundUpOnlyRelative == roundUpPair # "unequal"

C9_Witness ==
  /\ roundUpPair = "equal"
  /\ NowString
  /\ optRoundUp(last.options) = "true"
  /\ last.result = MomentNow(last.clock)

\* C10: isValid is called exactly when the input is a string containing
\* 'now' (lower case, anywhere); parse is called only after isValid returned
\* true for the same string; for a string without 'now' neither is called.
C10_TwoStageGate ==
  Called =>
    /\ HasCall("isValid") <=> NowString
    /\ \A j \in 1..Len(last.calls) :
         last.calls[j].fn = "parse" =>
           \E i \in 1..(j - 1) :
             /\ last.calls[i].fn = "isValid"
             /\ last.calls[i].text = last.calls[j].text
             /\ last.calls[i].ret
    /\ PlainString => (~HasCall("isValid") /\ ~HasCall("parse"))

C10_Witness ==
  /\ Called
  /\ last.value = StringValue(<<"x","n","o","w">>)
  /\ PathRelative
  /\ last.calls[2].ret # Null

====
